---- MODULE Spec2Model ----
(***************************************************************************)
(* Lexical analyzer of Diego-HC/compiler.                                  *)
(*                                                                         *)
(* Two configurations of the same lexer are modelled:                      *)
(*   "lib"  : src/src/lib.rs   (library, used by tests/lexer_tests.rs)      *)
(*   "main" : src/src/main.rs  (standalone program)                        *)
(*                                                                         *)
(* A string is a sequence of one-character strings.  Every character of    *)
(* the modelled alphabet is ASCII, so byte offsets and character offsets   *)
(* coincide.  An i64 does not fit a model integer, so integer payloads are *)
(* kept as sign + decimal magnitude and compared against the exact i64     *)
(* limits digit by digit.                                                  *)
(***************************************************************************)
EXTENDS Integers, Sequences, FiniteSets, TLC

\* Number of alphabet pieces an input is assembled from.
MaxPieces == 2

Configs == {"lib", "main"}

(***************************************************************************)
(* Character classes of the lexer! patterns.                               *)
(***************************************************************************)
Digits == {"0", "1", "2", "3", "4", "5", "6", "7", "8", "9"}

LowerLetters ==
    {"a", "b", "c", "d", "e", "f", "g", "h", "i", "j", "k", "l", "m",
     "n", "o", "p", "q", "r", "s", "t", "u", "v", "w", "x", "y", "z"}

UpperLetters ==
    {"A", "B", "C", "D", "E", "F", "G", "H", "I", "J", "K", "L", "M",
     "N", "O", "P", "Q", "R", "S", "T", "U", "V", "W", "X", "Y", "Z"}

\* [ \n\t]
WhitespaceClass == {" ", "\n", "\t"}

\* [a-zA-Z_]
IdentStart == LowerLetters \cup UpperLetters \cup {"_"}

\* [a-zA-Z0-9_]
IdentCont == IdentStart \cup Digits

\* The two-character alternatives of the operator pattern.
TwoCharAlternatives(cfg) ==
    IF cfg = "lib"
    THEN {<<"+", "=">>, <<"-", "=">>, <<"*", "=">>, <<"/", "=">>,
          <<"=", "=">>, <<"!", "=">>, <<"<", "=">>, <<">", "=">>,
          <<"&", "&">>, <<"|", "|">>}
    ELSE {<<"=", "=">>, <<"!", "=">>, <<"<", "=">>, <<">", "=">>,
          <<"&", "&">>, <<"|", "|">>}

\* The trailing character class of the operator pattern:
\*   lib  [+\\\-*\/%<>!=]     main  [+\\\-*\/%<>!]
\* In both, \\ is a literal backslash, \- a hyphen and \/ a slash.
OneCharClass(cfg) ==
    IF cfg = "lib"
    THEN {"+", "\\", "-", "*", "/", "%", "<", ">", "!", "="}
    ELSE {"+", "\\", "-", "*", "/", "%", "<", ">", "!"}

\* Characters str::trim removes (Unicode White_Space), ASCII part.
TrimClass == {" ", "\t", "\n", "\r", "\f"}

(***************************************************************************)
(* Static maps.                                                            *)
(***************************************************************************)
KEYWORDS(cfg) ==
    IF cfg = "lib"
    THEN (<<"w", "h", "i", "l", "e">> :> "While") @@
         (<<"f", "o", "r">> :> "For") @@
         (<<"f", "n">> :> "Fn") @@
         (<<"i", "f">> :> "If") @@
         (<<"e", "l", "s", "e">> :> "Else")
    ELSE (<<"w", "h", "i", "l", "e">> :> "While") @@
         (<<"f", "o", "r">> :> "For") @@
         (<<"f", "n">> :> "Fn") @@
         (<<"i", "f">> :> "If")

OPERATORS(cfg) ==
    IF cfg = "lib"
    THEN (<<"+">> :> "Plus") @@ (<<"+", "=">> :> "PlusEqual") @@
         (<<"-">> :> "Minus") @@ (<<"-", "=">> :> "MinusEqual") @@
         (<<"*">> :> "Multiply") @@ (<<"*", "=">> :> "MultiplyEqual") @@
         (<<"/">> :> "Divide") @@ (<<"/", "=">> :> "DivideEqual") @@
         (<<"%">> :> "Modulo") @@ (<<"=">> :> "Equal") @@
         (<<"=", "=">> :> "EqualEqual") @@ (<<"!", "=">> :> "NotEqual") @@
         (<<"<">> :> "Less") @@ (<<"<", "=">> :> "LessEqual") @@
         (<<">">> :> "Greater") @@ (<<">", "=">> :> "GreaterEqual") @@
         (<<"&", "&">> :> "And") @@ (<<"|", "|">> :> "Or") @@
         (<<"!">> :> "Not")
    ELSE (<<"+">> :> "Plus") @@ (<<"-">> :> "Minus") @@
         (<<"*">> :> "Multiply") @@ (<<"/">> :> "Divide") @@
         (<<"%">> :> "Modulo") @@
         (<<"=", "=">> :> "EqualEqual") @@ (<<"!", "=">> :> "NotEqual") @@
         (<<"<">> :> "Less") @@ (<<"<", "=">> :> "LessEqual") @@
         (<<">">> :> "Greater") @@ (<<">", "=">> :> "GreaterEqual") @@
         (<<"&", "&">> :> "And") @@ (<<"|", "|">> :> "Or") @@
         (<<"!">> :> "Not")

\* Option<Keyword>: "" is None.
parse_keyword(s, cfg) ==
    IF s \in DOMAIN KEYWORDS(cfg) THEN KEYWORDS(cfg)[s] ELSE ""

\* Option<Operator>: "" is None.
parse_operator(s, cfg) ==
    IF s \in DOMAIN OPERATORS(cfg) THEN OPERATORS(cfg)[s] ELSE ""

(***************************************************************************)
(* i64 parsing (tok.parse::<i64>()).                                       *)
(***************************************************************************)
DigitVal ==
    ("0" :> 0) @@ ("1" :> 1) @@ ("2" :> 2) @@ ("3" :> 3) @@ ("4" :> 4) @@
    ("5" :> 5) @@ ("6" :> 6) @@ ("7" :> 7) @@ ("8" :> 8) @@ ("9" :> 9)

\* i64::MAX = 9223372036854775807, as decimal digits.
I64MaxMag == <<9, 2, 2, 3, 3, 7, 2, 0, 3, 6, 8, 5, 4, 7, 7, 5, 8, 0, 7>>

\* |i64::MIN| = 9223372036854775808, as decimal digits.
I64MinMag == <<9, 2, 2, 3, 3, 7, 2, 0, 3, 6, 8, 5, 4, 7, 7, 5, 8, 0, 8>>

\* a <= b for magnitudes without leading zeros.
RECURSIVE LexLeq(_, _, _)
LexLeq(a, b, i) ==
    IF i > Len(a) THEN TRUE
    ELSE IF a[i] < b[i] THEN TRUE
    ELSE IF a[i] > b[i] THEN FALSE
    ELSE LexLeq(a, b, i + 1)

MagLeq(a, b) ==
    IF Len(a) # Len(b) THEN Len(a) < Len(b) ELSE LexLeq(a, b, 1)

\* Number of consecutive characters of class C in s from index i on.
RECURSIVE RunFrom(_, _, _)
RunFrom(s, i, C) ==
    IF i <= Len(s) /\ s[i] \in C THEN 1 + RunFrom(s, i + 1, C) ELSE 0

\* The magnitude of the digits s[first..], without leading zeros (<<>> is
\* zero).
Magnitude(s, first) ==
    LET zeros == RunFrom(s, first, {"0"})
    IN  [k \in 1..(Len(s) - first + 1 - zeros) |->
            DigitVal[s[first + zeros + k - 1]]]

\* Result<i64, ParseIntError> of str::parse::<i64> for a string matching
\* -?[0-9]+ : Ok(value) when the value lies in i64::MIN..=i64::MAX, and
\* otherwise Err (PosOverflow / NegOverflow).
ParseI64(s) ==
    LET negative == s[1] = "-"
        mag == Magnitude(s, IF negative THEN 2 ELSE 1)
        ok == MagLeq(mag, IF negative THEN I64MinMag ELSE I64MaxMag)
    IN  [ok |-> ok, neg |-> negative /\ ok /\ mag # <<>>,
         mag |-> IF ok THEN mag ELSE <<>>]

(***************************************************************************)
(* Tokens.                                                                 *)
(***************************************************************************)
NoMag == <<>>
NoText == <<>>

Whitespace == [kind |-> "Whitespace", name |-> "", neg |-> FALSE, mag |-> NoMag, text |-> NoText]
Integer(n, m) == [kind |-> "Integer", name |-> "", neg |-> n, mag |-> m, text |-> NoText]
\* The f64 payload is represented by the literal it is parsed from.
Decimal(t) == [kind |-> "Decimal", name |-> "", neg |-> FALSE, mag |-> NoMag, text |-> t]
Identifier(t) == [kind |-> "Identifier", name |-> "", neg |-> FALSE, mag |-> NoMag, text |-> t]
Keyword(k) == [kind |-> "Keyword", name |-> k, neg |-> FALSE, mag |-> NoMag, text |-> NoText]
Operator(o) == [kind |-> "Operator", name |-> o, neg |-> FALSE, mag |-> NoMag, text |-> NoText]
\* Placeholder where no token is present.
NoToken == [kind |-> "None", name |-> "", neg |-> FALSE, mag |-> NoMag, text |-> NoText]

(***************************************************************************)
(* lexer! { fn take_token(tok: 'a) -> Token; ... }                         *)
(*                                                                         *)
(* The generated scanner runs one automaton for all rules and keeps the    *)
(* last accepting position, so the longest prefix any rule matches wins;   *)
(* among rules matching that same prefix the one declared first wins.      *)
(***************************************************************************)
\* Length of the optional leading '-' of the numeric patterns.
SignLen(s) ==
    IF Len(s) >= 1 /\ s[1] = "-" THEN 1 ELSE 0

\* Longest prefix matching [ \n\t]+ (0: no match).
WhitespaceLen(s) ==
    RunFrom(s, 1, WhitespaceClass)

\* Longest prefix matching -?[0-9]+\.[0-9]+ (0: no match).
DecimalLen(s) ==
    LET m == SignLen(s)
        d == RunFrom(s, m + 1, Digits)
        dot == m + d + 1
        f == RunFrom(s, dot + 1, Digits)
    IN  IF d >= 1 /\ dot <= Len(s) /\ s[dot] = "." /\ f >= 1
        THEN dot + f
        ELSE 0

\* Longest prefix matching -?[0-9]+ (0: no match).
IntegerLen(s) ==
    LET m == SignLen(s)
        d == RunFrom(s, m + 1, Digits)
    IN  IF d >= 1 THEN m + d ELSE 0

\* Variant: the one-character class is tried before the two-character
\* alternatives.
OperatorLenShortFirst(s, cfg) ==
    IF Len(s) >= 1 /\ s[1] \in OneCharClass(cfg) THEN 1
    ELSE IF Len(s) >= 2 /\ SubSeq(s, 1, 2) \in TwoCharAlternatives(cfg) THEN 2
    ELSE 0

\* Longest prefix matching the operator pattern (0: no match).
OperatorLen(s, cfg) ==
    IF Len(s) >= 2 /\ SubSeq(s, 1, 2) \in TwoCharAlternatives(cfg) THEN 2
    ELSE IF Len(s) >= 1 /\ s[1] \in OneCharClass(cfg) THEN 1
    ELSE 0

\* Variant: the identifier pattern without digits, [a-zA-Z_][a-zA-Z_]*.
IdentifierLenNoDigits(s) ==
    IF Len(s) >= 1 /\ s[1] \in IdentStart
    THEN 1 + RunFrom(s, 2, IdentStart)
    ELSE 0

\* Longest prefix matching [a-zA-Z_][a-zA-Z0-9_]* (0: no match).
IdentifierLen(s) ==
    IF Len(s) >= 1 /\ s[1] \in IdentStart
    THEN 1 + RunFrom(s, 2, IdentCont)
    ELSE 0

\* Rule numbers, in declaration order.
WhitespaceRule == 1
DecimalRule == 2
IntegerRule == 3
OperatorRule == 4
IdentifierRule == 5

\* The match given the length each rule matches (w, d, i, o, id in
\* declaration order): the longest wins, the first rule among equals;
\* len = 0 is None.
Select(w, d, i, o, id) ==
    LET lens == <<w, d, i, o, id>>
        best == CHOOSE n \in {w, d, i, o, id} : \A r \in 1..5 : lens[r] <= n
        first == CHOOSE r \in 1..5 :
                    /\ lens[r] = best
                    /\ \A q \in 1..(r - 1) : lens[q] # best
    IN  [len |-> best, rule |-> IF best = 0 THEN 0 ELSE first]

\* The rule and the length of the match at the start of s (each rule's
\* length is computed once; the set has exactly one element).
Match(s, cfg) ==
    CHOOSE m \in {Select(w, d, i, o, id) :
                    w \in {WhitespaceLen(s)}, d \in {DecimalLen(s)},
                    i \in {IntegerLen(s)}, o \in {OperatorLen(s, cfg)},
                    id \in {IdentifierLen(s)}} : TRUE

\* Variant: an out-of-range literal saturates (parse().unwrap_or(i64::MAX)).
IntegerActionSaturating(tok) ==
    LET r == ParseI64(tok)
    IN  IF r.ok
        THEN [panic |-> "", token |-> Integer(r.neg, r.mag)]
        ELSE [panic |-> "", token |-> Integer(FALSE, I64MaxMag)]

\* Token::Integer(tok.parse().unwrap())
IntegerAction(tok) ==
    LET r == ParseI64(tok)
    IN  IF r.ok
        THEN [panic |-> "", token |-> Integer(r.neg, r.mag)]
        ELSE [panic |-> "ParseIntError", token |-> NoToken]

\* Token::Decimal(tok.parse().unwrap()): parsing an f64 from a string of
\* this shape never fails (out-of-range literals saturate).
DecimalAction(tok) ==
    [panic |-> "", token |-> Decimal(tok)]

\* if let Some(op) = parse_operator(tok) {..} else { panic!("Unknown operator") }
OperatorAction(tok, cfg) ==
    LET op == parse_operator(tok, cfg)
    IN  IF op # ""
        THEN [panic |-> "", token |-> Operator(op)]
        ELSE [panic |-> "UnknownOperator", token |-> NoToken]

\* Variant: a word that merely starts with a keyword is taken as the keyword.
IdentifierActionPrefix(tok, cfg) ==
    LET starts == {k \in DOMAIN KEYWORDS(cfg) :
                      Len(k) <= Len(tok) /\ SubSeq(tok, 1, Len(k)) = k}
    IN  IF starts # {}
        THEN [panic |-> "", token |-> Keyword(KEYWORDS(cfg)[CHOOSE k \in starts : TRUE])]
        ELSE [panic |-> "", token |-> Identifier(tok)]

\* if let Some(keyword) = parse_keyword(tok) {..} else { Identifier(tok) }
IdentifierAction(tok, cfg) ==
    LET keyword == parse_keyword(tok, cfg)
    IN  IF keyword # ""
        THEN [panic |-> "", token |-> Keyword(keyword)]
        ELSE [panic |-> "", token |-> Identifier(tok)]

RuleAction(rule, tok, cfg) ==
    CASE rule = WhitespaceRule -> [panic |-> "", token |-> Whitespace]
      [] rule = DecimalRule -> DecimalAction(tok)
      [] rule = IntegerRule -> IntegerAction(tok)
      [] rule = OperatorRule -> OperatorAction(tok, cfg)
      [] rule = IdentifierRule -> IdentifierAction(tok, cfg)

\* The result of take_token for the match m whose rule action gave a:
\* matched = FALSE is None; otherwise tok is the matched text, rest the new
\* remaining, and panic / token the outcome of the action.
Scan(s, m, a) ==
    [matched |-> TRUE, rule |-> m.rule, tok |-> SubSeq(s, 1, m.len),
     rest |-> SubSeq(s, m.len + 1, Len(s)),
     panic |-> a.panic, token |-> a.token]

NoMatch(s) ==
    [matched |-> FALSE, rule |-> 0, tok |-> <<>>, rest |-> s,
     panic |-> "", token |-> NoToken]

\* take_token(s).  The match, the matched text and the rule action are each
\* evaluated once; the set has exactly one element.
take_token(s, cfg) ==
    CHOOSE r \in UNION {
        IF m.len = 0
        THEN {NoMatch(s)}
        ELSE UNION {{Scan(s, m, a) : a \in {RuleAction(m.rule, tok, cfg)}}
                    : tok \in {SubSeq(s, 1, m.len)}}
        : m \in {Match(s, cfg)}} : TRUE

(***************************************************************************)
(* extract_tokens                                                          *)
(***************************************************************************)
\* tokens.last()
LastToken(toks) ==
    IF toks = <<>> THEN NoToken ELSE toks[Len(toks)]

\* Variant: only two tokens of the same kind count as unseparated.
MissingSeparatorSameKind(toks, token) ==
    /\ toks # <<>>
    /\ LastToken(toks).kind = token.kind
    /\ token.kind # "Whitespace"

\* if let Some(prev_token) = tokens.last() {
\*     if !matches!(prev_token, Whitespace) && !matches!(token, Whitespace)
MissingSeparator(toks, token) ==
    /\ toks # <<>>
    /\ LastToken(toks).kind # "Whitespace"
    /\ token.kind # "Whitespace"

\* Number of consecutive characters of class C in s from index i down.
RECURSIVE RunBack(_, _, _)
RunBack(s, i, C) ==
    IF i >= 1 /\ s[i] \in C THEN 1 + RunBack(s, i - 1, C) ELSE 0

\* remaining.trim()
Trim(s) ==
    IF RunFrom(s, 1, TrimClass) = Len(s) THEN <<>>
    ELSE SubSeq(s, RunFrom(s, 1, TrimClass) + 1,
                Len(s) - RunBack(s, Len(s), TrimClass))

\* The trailing check after the loop; main.rs has none.
TrailingCheckFails(rem, cfg) ==
    cfg = "lib" /\ Trim(rem) # <<>>

\* Variant: the position is taken from the trimmed suffix.
PositionTrimmed(inp, rem) ==
    Len(inp) - Len(Trim(rem))

\* let position = input.len() - remaining.len();
Position(inp, rem) ==
    Len(inp) - Len(rem)

(***************************************************************************)
(* Inputs.                                                                 *)
(***************************************************************************)
Pieces ==
    {<<" ">>, <<"\n">>, <<"\t">>, <<"\r">>,
     <<"0">>, <<"7">>, <<".">>,
     <<"9", "2", "2", "3", "3", "7", "2", "0", "3", "6", "8", "5", "4", "7", "7", "5", "8", "0", "7">>,
     <<"9", "2", "2", "3", "3", "7", "2", "0", "3", "6", "8", "5", "4", "7", "7", "5", "8", "0", "8">>,
     <<"+">>, <<"-">>, <<"*">>, <<"/">>, <<"%">>, <<"=">>, <<"!">>,
     <<"<">>, <<">">>, <<"&">>, <<"|">>, <<"\\">>, <<"$">>,
     <<"w", "h", "i", "l", "e">>, <<"f", "o", "r">>, <<"f", "n">>,
     <<"i", "f">>, <<"e", "l", "s", "e">>,
     <<"f">>, <<"I">>, <<"_">>}

\* The inputs of tests/lexer_tests.rs.
TestInputs ==
    {\* test_extract_tokens_basic: "fn myFunc 42 + 3.14 while"
     <<"f", "n", " ", "m", "y", "F", "u", "n", "c", " ", "4", "2", " ",
     "+", " ", "3", ".", "1", "4", " ", "w", "h", "i", "l", "e">>,
     \* test_missing_separator_panic: "42+3"
     <<"4", "2", "+", "3">>,
     \* test_unsupported_token_panic: "print $x + 3"
     <<"p", "r", "i", "n", "t", " ", "$", "x", " ", "+", " ", "3">>,
     \* test_token_with_multiple_whitespace: "if    x   !=  10"
     <<"i", "f", " ", " ", " ", " ", "x", " ", " ", " ", "!", "=", " ",
     " ", "1", "0">>,
     \* test_unrecognized_identifier_is_treated_as_identifier: "foobar"
     <<"f", "o", "o", "b", "a", "r">>,
     \* test_integer_and_decimal_literals: "100 -42 3.1415"
     <<"1", "0", "0", " ", "-", "4", "2", " ", "3", ".", "1", "4", "1",
     "5">>}

RECURSIVE Flatten(_)
Flatten(ps) ==
    IF ps = <<>> THEN <<>> ELSE Head(ps) \o Flatten(Tail(ps))

Inputs ==
    {Flatten(ps) : ps \in UNION {[1..n -> Pieces] : n \in 0..MaxPieces}}
        \cup TestInputs

NoPanic ==
    [kind |-> "", previous |-> NoToken, current |-> NoToken, position |-> 0,
     text |-> <<>>]

(***************************************************************************)
(* State.                                                                  *)
(***************************************************************************)
VARIABLES
    config,     \* which of the two programs runs
    input,      \* the argument of extract_tokens
    remaining,  \* the unconsumed suffix
    tokens,     \* the Vec<Token> built so far
    lexemes,    \* history: the text each pushed token was matched from
    pc,         \* "idle", "scan" (in the loop), "returned" or "panicked"
    panic       \* the panic raised, NoPanic while there is none

vars == <<config, input, remaining, tokens, lexemes, pc, panic>>

\* Before extract_tokens is called.
Init ==
    /\ config = "lib"
    /\ input = <<>>
    /\ remaining = <<>>
    /\ tokens = <<>>
    /\ lexemes = <<>>
    /\ pc = "idle"
    /\ panic = NoPanic

\* One of the two programs calls extract_tokens(input):
\*   let mut remaining = input.as_str(); let mut tokens = Vec::new();
Call ==
    /\ pc = "idle"
    /\ config' \in Configs
    /\ input' \in Inputs
    /\ remaining' = input'
    /\ tokens' = <<>>
    /\ lexemes' = <<>>
    /\ pc' = "scan"
    /\ panic' = NoPanic

\* The call ends in a panic.
Raise(kind, prev, cur, pos, text) ==
    /\ pc' = "panicked"
    /\ panic' = [kind |-> kind, previous |-> prev, current |-> cur,
                 position |-> pos, text |-> text]
    /\ UNCHANGED <<config, input, remaining, tokens, lexemes>>

\* tok.parse().unwrap() fails on an integer literal.
ParseIntPanic ==
    /\ pc = "scan"
    /\ \E r \in {take_token(remaining, config)} :
           /\ r.matched
           /\ r.panic = "ParseIntError"
           /\ Raise("ParseIntError", NoToken, NoToken, 0, r.tok)

\* panic!("Unknown operator: {}", tok)
UnknownOperatorPanic ==
    /\ pc = "scan"
    /\ \E r \in {take_token(remaining, config)} :
           /\ r.matched
           /\ r.panic = "UnknownOperator"
           /\ Raise("UnknownOperator", NoToken, NoToken, 0, r.tok)

\* panic!("Missing separator between tokens {:?} and {:?}", prev_token, token)
MissingSeparatorPanic ==
    /\ pc = "scan"
    /\ \E r \in {take_token(remaining, config)} :
           /\ r.matched
           /\ r.panic = ""
           /\ MissingSeparator(tokens, r.token)
           /\ Raise("MissingSeparator", LastToken(tokens), r.token, 0, <<>>)

\* Variant: the loop forgets remaining = new_remaining.
PushTokenNoAdvance ==
    /\ pc = "scan"
    /\ \E r \in {take_token(remaining, config)} :
           /\ r.matched
           /\ r.panic = ""
           /\ ~MissingSeparator(tokens, r.token)
           /\ tokens' = Append(tokens, r.token)
           /\ lexemes' = Append(lexemes, r.tok)
    /\ UNCHANGED <<config, input, remaining, pc, panic>>

\* tokens.push(token); remaining = new_remaining;
PushToken ==
    /\ pc = "scan"
    /\ \E r \in {take_token(remaining, config)} :
           /\ r.matched
           /\ r.panic = ""
           /\ ~MissingSeparator(tokens, r.token)
           /\ tokens' = Append(tokens, r.token)
           /\ lexemes' = Append(lexemes, r.tok)
           /\ remaining' = r.rest
    /\ UNCHANGED <<config, input, pc, panic>>

\* The loop ends (take_token is None) and the trailing check panics.
UnrecognizedPanic ==
    /\ pc = "scan"
    /\ ~take_token(remaining, config).matched
    /\ TrailingCheckFails(remaining, config)
    /\ Raise("UnrecognizedToken", NoToken, NoToken,
             Position(input, remaining), remaining)

\* The loop ends and tokens is returned.
ReturnTokens ==
    /\ pc = "scan"
    /\ ~take_token(remaining, config).matched
    /\ ~TrailingCheckFails(remaining, config)
    /\ pc' = "returned"
    /\ UNCHANGED <<config, input, remaining, tokens, lexemes, panic>>

Next ==
    \/ Call
    \/ PushToken
    \/ MissingSeparatorPanic
    \/ ParseIntPanic
    \/ UnknownOperatorPanic
    \/ UnrecognizedPanic
    \/ ReturnTokens

Spec == Init /\ [][Next]_vars

\* extract_tokens is a plain sequential loop: a step that can be taken is taken.
FairSpec == Spec /\ WF_vars(Next)

TypeOK ==
    /\ config \in Configs
    /\ pc \in {"idle", "scan", "returned", "panicked"}
    /\ Len(tokens) = Len(lexemes)

(***************************************************************************)
(* Vocabulary of the properties, stated on the text alone.                 *)
(***************************************************************************)
\* The whole of c has the shape -?[0-9]+ .
IsIntegerLexeme(c) ==
    LET body == IF c # <<>> /\ c[1] = "-" THEN Tail(c) ELSE c
    IN  body # <<>> /\ \A i \in 1..Len(body) : body[i] \in Digits

\* The whole of c has the shape -?[0-9]+\.[0-9]+ .
IsDecimalLexeme(c) ==
    \E k \in 1..Len(c) :
        /\ c[k] = "."
        /\ IsIntegerLexeme(SubSeq(c, 1, k - 1))
        /\ k < Len(c)
        /\ \A i \in (k + 1)..Len(c) : c[i] \in Digits

\* The whole of c has the shape [A-Za-z_][A-Za-z0-9_]* .
IsIdentifierLexeme(c) ==
    /\ c # <<>>
    /\ c[1] \in IdentStart
    /\ \A i \in 2..Len(c) : c[i] \in IdentCont

\* The operator spellings of the language.
KnownOperatorSpellings ==
    {<<"+">>, <<"-">>, <<"*">>, <<"/">>, <<"%">>, <<"=">>,
     <<"+", "=">>, <<"-", "=">>, <<"*", "=">>, <<"/", "=">>,
     <<"=", "=">>, <<"!", "=">>, <<"<">>, <<"<", "=">>, <<">">>,
     <<">", "=">>, <<"&", "&">>, <<"|", "|">>, <<"!">>}

IsLexeme(c) ==
    \/ IsIntegerLexeme(c)
    \/ IsDecimalLexeme(c)
    \/ c \in KnownOperatorSpellings
    \/ IsIdentifierLexeme(c)

\* The maximal runs of characters other than space, tab and newline.
RECURSIVE ChunksFrom(_, _)
ChunksFrom(s, cur) ==
    LET done == IF cur = <<>> THEN <<>> ELSE <<cur>>
    IN  IF s = <<>> THEN done
        ELSE IF Head(s) \in {" ", "\t", "\n"}
             THEN done \o ChunksFrom(Tail(s), <<>>)
             ELSE ChunksFrom(Tail(s), Append(cur, Head(s)))

Chunks(s) ==
    ChunksFrom(s, <<>>)

\* s is valid lexemes, every two non-whitespace ones separated by whitespace.
ValidSeparated(s) ==
    \A i \in 1..Len(Chunks(s)) : IsLexeme(Chunks(s)[i])

RECURSIVE StripZeros(_)
StripZeros(ds) ==
    IF ds # <<>> /\ Head(ds) = 0 THEN StripZeros(Tail(ds)) ELSE ds

\* The mathematical value of an integer literal: sign and magnitude.
LiteralMagnitude(c) ==
    LET body == IF c[1] = "-" THEN Tail(c) ELSE c
    IN  StripZeros([i \in 1..Len(body) |-> DigitVal[body[i]]])

LiteralNegative(c) ==
    c[1] = "-" /\ LiteralMagnitude(c) # <<>>

\* The value lies in -2^63 .. 2^63 - 1.
FitsI64(c) ==
    IF LiteralNegative(c)
    THEN MagLeq(LiteralMagnitude(c), I64MinMag)
    ELSE MagLeq(LiteralMagnitude(c), I64MaxMag)

\* Offset in input at which the i-th pushed token was matched.
OffsetOf(i) ==
    Len(Flatten(SubSeq(lexemes, 1, i - 1)))

Scanned ==
    take_token(remaining, config)

Str42Plus3 == <<"4", "2", "+", "3">>
StrPrint == <<"p", "r", "i", "n", "t", " ", "$", "x", " ", "+", " ", "3">>
StrBasic ==
    <<"f", "n", " ", "m", "y", "F", "u", "n", "c", " ", "4", "2", " ",
      "+", " ", "3", ".", "1", "4", " ", "w", "h", "i", "l", "e">>
StrIfNe ==
    <<"i", "f", " ", " ", " ", " ", "x", " ", " ", " ", "!", "=", " ",
      " ", "1", "0">>
StrLiterals ==
    <<"1", "0", "0", " ", "-", "4", "2", " ", "3", ".", "1", "4", "1", "5">>

(***************************************************************************)
(* C1                                                                      *)
(***************************************************************************)
NoAdjacentNonWhitespace(toks) ==
    \A i \in 2..Len(toks) :
        toks[i].kind = "Whitespace" \/ toks[i - 1].kind = "Whitespace"

\* C1: in the library, the token sequence never holds two consecutive
\* non-Whitespace tokens, and a scan step that yields a non-Whitespace token
\* right after a non-Whitespace token ends the call with the missing
\* separator error naming the previous and the current token, without
\* appending the current token.
C1_Adjacency ==
    [][config = "lib" =>
        /\ NoAdjacentNonWhitespace(tokens')
        /\ ( /\ pc = "scan"
             /\ Scanned.matched
             /\ Scanned.panic = ""
             /\ Scanned.token.kind # "Whitespace"
             /\ tokens # <<>>
             /\ tokens[Len(tokens)].kind # "Whitespace" )
           => /\ pc' = "panicked"
              /\ panic'.kind = "MissingSeparator"
              /\ panic'.previous = tokens[Len(tokens)]
              /\ panic'.current = Scanned.token
              /\ tokens' = tokens]_vars

C1_Witness ==
    /\ config = "lib"
    /\ input = Str42Plus3
    /\ pc = "panicked"
    /\ panic.kind = "MissingSeparator"
    /\ panic.previous = Integer(FALSE, <<4, 2>>)
    /\ panic.current = Operator("Plus")
    /\ tokens = <<Integer(FALSE, <<4, 2>>)>>

(***************************************************************************)
(* C2                                                                      *)
(***************************************************************************)
\* C2: in the library, when the scan stops where no rule matches and the
\* unconsumed suffix is not entirely whitespace, the call fails with the
\* unrecognized token error, whose position is the input length minus the
\* length of the unconsumed suffix: the offset of the first unmatched
\* character.
C2_UnrecognizedPosition ==
    [][( /\ config = "lib"
         /\ pc = "scan"
         /\ ~Scanned.matched
         /\ \E i \in 1..Len(remaining) : remaining[i] \notin TrimClass )
       => /\ pc' = "panicked"
          /\ panic'.kind = "UnrecognizedToken"
          /\ panic'.position = Len(input) - Len(remaining)
          /\ panic'.position = Len(Flatten(lexemes))
          /\ SubSeq(input, panic'.position + 1, Len(input)) = remaining]_vars

C2_Witness ==
    /\ config = "lib"
    /\ input = StrPrint
    /\ pc = "panicked"
    /\ panic.kind = "UnrecognizedToken"
    /\ panic.position = 6
    /\ input[panic.position + 1] = "$"

(***************************************************************************)
(* C3                                                                      *)
(***************************************************************************)
RoundTrip ==
    pc = "returned" /\ Flatten(lexemes) = input

\* C3 as stated: for every input of valid lexemes separated by whitespace
\* the library call succeeds and the matched texts concatenate to the input.
C3_Original ==
    (config = "lib" /\ pc \in {"returned", "panicked"} /\ ValidSeparated(input))
        => RoundTrip

IntegerLexemesFit(s) ==
    \A i \in 1..Len(Chunks(s)) :
        IsIntegerLexeme(Chunks(s)[i]) => FitsI64(Chunks(s)[i])

\* C3: for every input of valid lexemes separated by whitespace whose
\* integer literals all lie in the signed 64-bit range, the library call
\* succeeds and the matched texts of the tokens, concatenated in emission
\* order, equal the input.
C3_RoundTrip ==
    ( /\ config = "lib"
      /\ pc \in {"returned", "panicked"}
      /\ ValidSeparated(input)
      /\ IntegerLexemesFit(input) ) => RoundTrip

C3_Witness ==
    /\ config = "lib"
    /\ input = StrBasic
    /\ ValidSeparated(input)
    /\ pc = "returned"
    /\ Len(tokens) = 11
    /\ Flatten(lexemes) = input

(***************************************************************************)
(* C4                                                                      *)
(***************************************************************************)
\* C4: in both programs, extract_tokens never returns successfully when the
\* scan stopped where no rule matches and non-whitespace input remains.
C4_AllOrNothing ==
    pc = "returned" =>
        ~( /\ ~Scanned.matched
           /\ \E i \in 1..Len(remaining) : remaining[i] \notin TrimClass )

(***************************************************************************)
(* C5                                                                      *)
(***************************************************************************)
TwoCharOperatorKind ==
    (<<"+", "=">> :> "PlusEqual") @@ (<<"-", "=">> :> "MinusEqual") @@
    (<<"*", "=">> :> "MultiplyEqual") @@ (<<"/", "=">> :> "DivideEqual") @@
    (<<"=", "=">> :> "EqualEqual") @@ (<<"!", "=">> :> "NotEqual") @@
    (<<"<", "=">> :> "LessEqual") @@ (<<">", "=">> :> "GreaterEqual") @@
    (<<"&", "&">> :> "And") @@ (<<"|", "|">> :> "Or")

StartsWithTwoCharOperator(s) ==
    Len(s) >= 2 /\ SubSeq(s, 1, 2) \in DOMAIN TwoCharOperatorKind

\* C5: in the library, when the unconsumed input starts with a
\* two-character operator spelling, take_token yields one Operator token of
\* that spelling's kind and consumes exactly the two characters; no token
\* was ever pushed for the one-character prefix of such a spelling.
C5_LongestOperator ==
    config = "lib" =>
        /\ ( pc = "scan" /\ StartsWithTwoCharOperator(remaining) ) =>
              /\ Scanned.matched
              /\ Scanned.panic = ""
              /\ Scanned.tok = SubSeq(remaining, 1, 2)
              /\ Scanned.token = Operator(TwoCharOperatorKind[Scanned.tok])
              /\ Scanned.rest = SubSeq(remaining, 3, Len(remaining))
        /\ \A i \in 1..Len(tokens) :
              StartsWithTwoCharOperator(SubSeq(input, OffsetOf(i) + 1, Len(input)))
              => /\ Len(lexemes[i]) = 2
                 /\ tokens[i] = Operator(TwoCharOperatorKind[lexemes[i]])

C5_Witness ==
    /\ config = "lib"
    /\ input = StrIfNe
    /\ pc = "returned"
    /\ Len(tokens) = 7
    /\ tokens[5] = Operator("NotEqual")
    /\ lexemes[5] = <<"!", "=">>

(***************************************************************************)
(* C6                                                                      *)
(***************************************************************************)
ReservedKeywords ==
    (<<"w", "h", "i", "l", "e">> :> "While") @@ (<<"f", "o", "r">> :> "For") @@
    (<<"f", "n">> :> "Fn") @@ (<<"i", "f">> :> "If") @@
    (<<"e", "l", "s", "e">> :> "Else")

ExpectedWordToken(c) ==
    IF c \in DOMAIN ReservedKeywords
    THEN Keyword(ReservedKeywords[c])
    ELSE Identifier(c)

\* C6: in the library, when the unconsumed input starts with an identifier
\* character the lexeme is the longest identifier-shaped prefix, and its
\* token is Keyword(k) exactly when the lexeme is one of while, for, fn, if,
\* else (k its kind) and Identifier carrying the lexeme otherwise; the same
\* holds of every token already pushed.
C6_KeywordShadowing ==
    config = "lib" =>
        /\ ( pc = "scan" /\ remaining # <<>> /\ remaining[1] \in IdentStart ) =>
              /\ Scanned.matched
              /\ IsIdentifierLexeme(Scanned.tok)
              /\ Scanned.rest = <<>> \/ Scanned.rest[1] \notin IdentCont
              /\ Scanned.tok \o Scanned.rest = remaining
              /\ Scanned.token = ExpectedWordToken(Scanned.tok)
        /\ \A i \in 1..Len(tokens) :
              /\ IsIdentifierLexeme(lexemes[i])
                    => tokens[i] = ExpectedWordToken(lexemes[i])
              /\ tokens[i].kind \in {"Keyword", "Identifier"}
                    => IsIdentifierLexeme(lexemes[i])

C6_Witness ==
    /\ config = "lib"
    /\ input = <<"i", "f", "f">>
    /\ pc = "returned"
    /\ tokens = <<Identifier(<<"i", "f", "f">>)>>

(***************************************************************************)
(* C7                                                                      *)
(***************************************************************************)
\* C7: a lexeme matched by the integer rule yields an Integer token carrying
\* exactly the literal's value when the value fits the signed 64-bit range,
\* and otherwise the call ends in an error without any Integer token for it;
\* every Integer token pushed carries the value of its literal.
C7_IntegerPayload ==
    /\ ( pc = "scan" /\ Scanned.matched /\ Scanned.rule = IntegerRule ) =>
          /\ IsIntegerLexeme(Scanned.tok)
          /\ IF FitsI64(Scanned.tok)
             THEN /\ Scanned.panic = ""
                  /\ Scanned.token = Integer(LiteralNegative(Scanned.tok),
                                             LiteralMagnitude(Scanned.tok))
             ELSE /\ Scanned.panic = "ParseIntError"
                  /\ Scanned.token.kind # "Integer"
    /\ \A i \in 1..Len(tokens) :
          tokens[i].kind = "Integer" =>
              /\ IsIntegerLexeme(lexemes[i])
              /\ FitsI64(lexemes[i])
              /\ tokens[i] = Integer(LiteralNegative(lexemes[i]),
                                     LiteralMagnitude(lexemes[i]))
    /\ ( pc = "panicked" /\ panic.kind = "ParseIntError" ) =>
          /\ IsIntegerLexeme(panic.text)
          /\ ~FitsI64(panic.text)
          /\ \A i \in 1..Len(tokens) : OffsetOf(i) < Position(input, remaining)

C7_Witness ==
    /\ input = StrLiterals
    /\ pc = "returned"
    /\ tokens[1] = Integer(FALSE, <<1, 0, 0>>)
    /\ tokens[3] = Integer(TRUE, <<4, 2>>)
    /\ lexemes[3] = <<"-", "4", "2">>

(***************************************************************************)
(* C8                                                                      *)
(***************************************************************************)
\* C8: every text the operator rule matches has an entry in the operator
\* table, so the unknown operator failure never happens, in either program.
C8_NoUnknownOperator ==
    /\ panic.kind # "UnknownOperator"
    /\ ( pc = "scan" /\ Scanned.matched /\ Scanned.rule = OperatorRule )
          => Scanned.tok \in DOMAIN OPERATORS(config)

(***************************************************************************)
(* C9                                                                      *)
(***************************************************************************)
\* C9: extract_tokens terminates, and every loop iteration that yields a
\* token consumes at least one character: the unconsumed suffix strictly
\* shrinks and no matched text is empty.
C9_Termination ==
    /\ [][(pc = "scan" /\ pc' = "scan") =>
            /\ Len(remaining') < Len(remaining)
            /\ Len(lexemes') = Len(lexemes) + 1
            /\ Len(lexemes'[Len(lexemes')]) >= 1
            /\ lexemes'[Len(lexemes')] \o remaining' = remaining]_vars
    /\ <>(pc \in {"returned", "panicked"})

C9_Witness ==
    /\ input = StrBasic
    /\ pc = "returned"
    /\ remaining = <<>>
    /\ Len(tokens) = 11

(***************************************************************************)
(* C10                                                                     *)
(***************************************************************************)
\* C10: whenever the library call returns successfully the unconsumed suffix
\* is empty: the matched texts of the returned tokens equal the whole input.
C10_FullConsumption ==
    (config = "lib" /\ pc = "returned") =>
        /\ remaining = <<>>
        /\ Flatten(lexemes) = input

====
